---- MODULE Spec2Model ----
(***************************************************************************)
(* Model of the ingestion pipeline of coinbase-async: the supervisor loop  *)
(* of main.py, the MessageHandler of coinbase/connect/messages.py (receive *)
(* -> validate -> sequence check -> cache -> drain and write) and the      *)
(* outcome of the streaming insert of coinbase/bigquery/interact.py.       *)
(***************************************************************************)
EXTENDS Integers, Sequences, FiniteSets, TLC

---------------------------------------------------------------------------
(* Bounds of the model *)

\* largest sequence number the feed sends
MaxSeq == 2
\* largest number of ask levels of a feed snapshot
MaxAsks == 2
\* largest number of bid levels of a feed snapshot
MaxBids == 1
\* messages.py:40 is 500; scaled down so that a batch can fill up
_INSERT_STREAMING_BATCH_SIZE == 2
\* authorize.py:36 is 3600 seconds; scaled down so that a token can expire
\* within a session
_TOKEN_EXPIRATION == 4

---------------------------------------------------------------------------
(* Program constants *)

_ORDERBOOK_SNAPSHOT_ON == 1000000

\* asyncio.sleep(5.0) of the supervisor loop (main.py:94), in seconds
RESTART_DELAY == 5

\* None, for a text field and for a numeric field of a message
NoneVal == "None"
NoNumber == -1

MESSAGE_TYPES ==
  {"received", "open", "closed", "done", "match", "change", "activate"}

TABLE_TRADES == "trades"
TABLE_QUOTES == "quotes"
TABLE_ORDERBOOK == "orderbook"

tables == {TABLE_TRADES, TABLE_QUOTES, TABLE_ORDERBOOK}

\* str.replace("-", "_") on a product id
replace(pid) ==
  CASE pid = "BTC-USD" -> "BTC_USD"
    [] pid = "ETH-USD" -> "ETH_USD"
    [] OTHER -> pid

\* frames of one session: enough to fill a batch, drain it and go on
MaxFrames == _INSERT_STREAMING_BATCH_SIZE + 2

---------------------------------------------------------------------------
(* The feed: the frames the exchange can send *)

Seqs == 0..MaxSeq

\* the sizes (asks, bids) of the snapshots the feed sends
SnapshotSizes == {<<0, 0>>, <<1, 1>>, <<MaxAsks, MaxBids>>}

Event(t, p, s, a, b) ==
  [type |-> t, product_id |-> p, sequence |-> s, asks |-> a, bids |-> b]

\* None as a message: what line 337 appends, as dict.update() returns None
NoneEntry == Event(NoneVal, NoneVal, NoNumber, NoNumber, NoNumber)

TradeQuoteEvents(types, products) ==
  {Event(t, p, s, NoNumber, NoNumber) :
     t \in types, p \in products, s \in Seqs}

SnapshotEvents(products) ==
  {Event("snapshot", p, NoNumber, z[1], z[2]) :
     p \in products, z \in SnapshotSizes}

L2UpdateEvents(products) ==
  {Event("l2update", p, NoNumber, NoNumber, NoNumber) : p \in products}

\* a subscriptions acknowledgement, a feed-reported error, an object without
\* a type, and an object of a type the handler does not know (it carries a
\* sequence number, as the exchange's heartbeat does)
OtherEvents(products) ==
  {Event("subscriptions", NoneVal, NoNumber, NoNumber, NoNumber),
   Event("error", NoneVal, NoNumber, NoNumber, NoNumber),
   NoneEntry}
  \cup {Event("heartbeat", p, s, NoNumber, NoNumber) :
          p \in products, s \in {0, 1}}

\* what websocket.receive() hands back: a text frame holding one JSON
\* object, a closed signal, a frame of another kind, or the receive timeout
Frames(types, products) ==
  {[kind |-> "TEXT", data |-> e] :
     e \in TradeQuoteEvents(types, products) \cup SnapshotEvents(products)
           \cup L2UpdateEvents(products) \cup OtherEvents(products)}
  \cup {[kind |-> k, data |-> NoneEntry] : k \in {"CLOSED", "BINARY", "TIMEOUT"}}

\* what the endpoints can do for one insert_rows call: accept every row,
\* report row errors, answer with a non-200 status, or refuse the token
\* exchange
WriteResults == {"ok", "row_errors", "http_error", "auth_error"}

\* the same, and a non-200 response whose body reports row errors
ResponseResults == WriteResults \cup {"http_row_errors"}

---------------------------------------------------------------------------
(* State *)

VARIABLES
  pc,             \* "idle", "streaming" or "failed": the supervisor's position
  argv,           \* the product ids given on the command line
  service_file,   \* whether a service account file was given (storage on)
  product_ids,    \* MessageHandler.product_ids
  datasets,       \* MessageHandler.datasets: FALSE when storage is off
  sequences,      \* MessageHandler.sequences: product id -> counter
  message_cache,  \* MessageHandler.message_cache: product id -> table -> rows
  frames,         \* frames received in this session
  step,           \* what the last process_message call did
  last_drain,     \* the last drain this session completed
  now,            \* utcnow(), counted from the construction of the handler
  _token_expiration,  \* AsyncAuthGoogleCloud._token_expiration
  token,          \* AsyncAuthGoogleCloud.token, as the expiry it was issued for
  previous,       \* what the handler discarded at the start of this session
                  \* held, until the new one processes its first frame
  inflight,       \* the process_message call in progress, where the
                  \* specification follows it from await to await
  subscribe_message,  \* the subscribe_message main() hands to the handler
  websocket,      \* the feed connection of the session and the frames sent
                  \* on it
  received,       \* what the last websocket.receive() handed back
  normalized      \* an event and what _validate_message made of it, where
                  \* the specification applies it by itself

vars ==
  <<pc, argv, service_file, product_ids, datasets, sequences, message_cache,
    frames, step, last_drain, now, _token_expiration, token, previous,
    inflight, subscribe_message, websocket, received, normalized>>

---------------------------------------------------------------------------
(* MessageHandler: pure parts *)

\* a Python value of a field of an event: its type and its text. A field
\* the event does not have is Absent
pyval(tag, v) == [py |-> tag, v |-> v]
Absent == pyval("absent", "")
PyNone == pyval("None", "")

\* bool(x), as in: if message.get(field)
truthy(x) ==
  /\ x.py \notin {"absent", "None"}
  /\ ~(x.py = "str" /\ x.v = "")
  /\ ~(x.py \in {"int", "Decimal"} /\ x.v = "0")

\* Decimal(x) of a decimal text, an int or a Decimal: the same number, exact
Decimal(x) == pyval("Decimal", x.v)

\* int(x) of an int
int(x) == pyval("int", x.v)

\* parse_datetime(x) of a timestamp text
parse_datetime(x) == pyval("datetime", x.v)

\* datetime.utcnow() at time t
utcnow(t) == pyval("datetime", ToString(t))

\* lines 116-120 and 148-153: "buy" becomes 1, "sell" becomes -1
side_of(x) ==
  IF x = pyval("str", "buy") THEN pyval("int", "1")
  ELSE IF x = pyval("str", "sell") THEN pyval("int", "-1")
  ELSE x

\* what _validate_message raises on a message, if anything: parse_datetime
\* takes a text only
validation_error(message) ==
  IF "time" \in DOMAIN message /\ truthy(message.time)
     /\ message.time.py # "str"
    THEN "type_error"
    ELSE NoneVal

\* exits_early of a method that has no early return
exits_early_never(message) == FALSE

\* a message with a non-empty changes list leaves at line 128
exits_early(message) ==
  "changes" \in DOMAIN message /\ message.changes # <<>>

\* _validate_message (lines 97-155), field by field of the fields the
\* message has, at time t: a missing type becomes "unknown", the product id
\* is rewritten, the time parsed (a snapshot without one gets t), the first
\* change triple and the numeric fields converted; the sequence is an int
\* already
_validate_message(message, t) ==
  [f \in DOMAIN message |->
     CASE f = "type" ->
            IF message[f] = NoneVal THEN "unknown" ELSE message[f]
       [] f = "product_id" ->
            IF message[f] = NoneVal THEN message[f] ELSE replace(message[f])
       [] f = "time" ->
            IF truthy(message[f]) THEN parse_datetime(message[f])
            ELSE IF message.type = "snapshot" THEN utcnow(t)
            ELSE PyNone
       [] f = "changes" ->
            IF exits_early(message)
              THEN [message[f] EXCEPT
                      ![1] = <<side_of(@[1]), Decimal(@[2]), Decimal(@[3])>>]
              ELSE message[f]
       [] f \in {"price", "funds", "size", "remaining_size"} ->
            IF ~exits_early(message) /\ truthy(message[f])
              THEN Decimal(message[f]) ELSE message[f]
       [] f = "trade_id" ->
            IF ~exits_early(message) /\ truthy(message[f])
              THEN int(message[f]) ELSE message[f]
       [] f = "side" ->
            IF ~exits_early(message) THEN side_of(message[f]) ELSE message[f]
       [] OTHER -> message[f]]

\* _init_message_cache: one empty list per product and table
_init_message_cache(pids) ==
  [p \in pids |-> [t \in tables |-> <<>>]]

\* init_sequences that takes up the counters of the handler before
init_sequences_resume(pids) ==
  [p \in pids |-> IF p \in DOMAIN sequences THEN sequences[p] ELSE 0]

\* MessageHandler.__init__: every counter starts at 0
init_sequences(pids) == [p \in pids |-> 0]

\* cache_append that refuses a second snapshot
cache_append_one(cache, pid, table, entry) ==
  IF entry.type = "snapshot"
     /\ \E i \in 1..Len(cache[pid][table]) : cache[pid][table][i].type = "snapshot"
    THEN cache
    ELSE [cache EXCEPT ![pid][table] = Append(@, entry)]

\* cache_append on lists that every instrument shares
cache_append_shared(cache, pid, table, entry) ==
  [p \in DOMAIN cache |-> [cache[p] EXCEPT ![table] = Append(@, entry)]]

\* list.append on message_cache[pid][table]
cache_append(cache, pid, table, entry) ==
  [cache EXCEPT ![pid][table] = Append(@, entry)]

\* out_of_sequence with a test that lets a gap through
out_of_sequence_gap(current_seq, sequence) ==
  current_seq # 0 /\ sequence < current_seq

\* the sequence test of _process_message: TRUE when the message is refused
out_of_sequence(current_seq, sequence) ==
  current_seq # 0 /\ sequence # current_seq

\* the counter _process_message stores on acceptance
next_sequence(sequence) == sequence + 1

\* trade_quote_table that sends a match to the quotes like the rest
trade_quote_table_quotes(type) == TABLE_QUOTES

\* the table a trade/quote message is appended to (lines 354-365)
trade_quote_table(type) ==
  IF type = "match" THEN TABLE_TRADES ELSE TABLE_QUOTES

\* _retrieve_message_cache: which cache process_message looks at afterwards
_retrieve_message_cache(cache, message) ==
  IF message.type = "subscriptions"
    THEN [cache |-> <<NoneVal>>, table_ref |-> NoneVal, pid |-> NoneVal,
          raised |-> NoneVal]
  ELSE IF message.type = "match"
    THEN [cache |-> cache[message.product_id][TABLE_TRADES],
          table_ref |-> TABLE_TRADES, pid |-> message.product_id,
          raised |-> NoneVal]
  ELSE IF message.type \in MESSAGE_TYPES
    THEN [cache |-> cache[message.product_id][TABLE_QUOTES],
          table_ref |-> TABLE_QUOTES, pid |-> message.product_id,
          raised |-> NoneVal]
  ELSE IF message.type \in {"snapshot", "l2update"}
    THEN [cache |-> cache[message.product_id][TABLE_ORDERBOOK],
          table_ref |-> TABLE_ORDERBOOK, pid |-> message.product_id,
          raised |-> NoneVal]
  ELSE [cache |-> <<>>, table_ref |-> NoneVal, pid |-> NoneVal,
        raised |-> "type_error"]

---------------------------------------------------------------------------
(* WebSocket: the subscription request and the connection *)

\* a Python list of strings, and a Python string: a list never equals a
\* string
pylist(items) == [pytype |-> "list", value |-> items]
pystr(s) == [pytype |-> "str", value |-> <<s>>]

_UNSUPPORTED_CHANNELS ==
  <<pystr("ticker"), pystr("user"), pystr("matches"), pystr("heartbeat")>>

\* x in list: some element of the list equals x
py_in(x, list) == \E i \in 1..Len(list) : list[i] = x

\* subscribe_message=None
NoSubscribe ==
  [type |-> NoneVal, product_ids |-> {}, channels |-> pylist(<<>>)]

\* lines 75-81: the request given, or the default one
_subscribe(message, pids) ==
  IF message = NoSubscribe
    THEN [type |-> "subscribe", product_ids |-> pids,
          channels |-> pylist(<<"full", "level2">>)]
    ELSE message

\* the test of line 82: self._subscribe["channels"] in _UNSUPPORTED_CHANNELS
unsupported(subscribe) == py_in(subscribe.channels, _UNSUPPORTED_CHANNELS)

\* no connection was opened
NoConnection == [open |-> FALSE, sent |-> <<>>]

\* line 99: connection.__aenter__() has returned the open websocket
ws_connect(connection) == [connection EXCEPT !.open = TRUE]

\* send_json that sends the request a second time
send_json_twice(connection, subscribe) ==
  [connection EXCEPT !.sent = Append(Append(@, subscribe), subscribe)]

\* line 100: websocket.send_json puts one frame on the connection
send_json(connection, subscribe) ==
  [connection EXCEPT !.sent = Append(@, subscribe)]

\* __init_connection__: the connection is entered and the request sent
__init_connection__(subscribe) ==
  send_json(ws_connect(NoConnection), subscribe)

\* __aexit__: the session of the connection is closed
__aexit__(connection) == [connection EXCEPT !.open = FALSE]

---------------------------------------------------------------------------
(* AsyncAuthGoogleCloud and AsyncBigQuery: the token and one bulk write *)

\* what the object holds: the stored expiry and the token, written as the
\* expiry it was issued for (NoNumber while the attribute does not exist)
credentials(expiration, tok) ==
  [_token_expiration |-> expiration, token |-> tok]

\* AsyncAuthGoogleCloud.__init__ at time t: the expiry is utcnow(), and no
\* token attribute is set
init_credentials(t) == credentials(t, NoNumber)

\* _make_jwt_for_audience at time t: the stored expiry is moved first
_make_jwt_for_audience(auth, t) ==
  [auth EXCEPT !._token_expiration = t + _TOKEN_EXPIRATION]

\* _acquire_token at time t: the assertion is made, then the exchange either
\* raises or stores the token
_acquire_token(auth, t, result) ==
  LET signed == _make_jwt_for_audience(auth, t)
  IN IF result = "auth_error"
       THEN [auth |-> signed, raised |-> "auth_error"]
       ELSE [auth |-> [signed EXCEPT !.token = signed._token_expiration],
             raised |-> NoneVal]

\* the test of interact.py:212
expired(t, expiration) == t > expiration

\* the response of the insertAll endpoint: its status and the rows it
\* reports in insertErrors
response(result) ==
  [status |-> IF result \in {"http_error", "http_row_errors"} THEN 500 ELSE 200,
   insertErrors |->
     IF result \in {"row_errors", "http_row_errors"}
       THEN <<[index |-> 0, errors |-> "invalid"]>>
       ELSE <<>>]

\* lines 224-229: one entry of the returned list per entry of insertErrors
returned_errors(content) ==
  [i \in 1..Len(content.insertErrors) |->
     [index |-> content.insertErrors[i].index,
      errors |-> content.insertErrors[i].errors]]

\* no response: the request was not sent
NoReply == [status |-> NoNumber, insertErrors |-> <<>>]

\* one insert_rows call at time t: the rows it was given, what the
\* endpoints do for it (result), the credentials before and after it, what
\* it did in order (trace), the token it attached, the response it got, and
\* what it raised or returned (errors)
write_call(rows, result, t, old, new, trace, bearer, reply, raised, errors) ==
  [rows |-> rows, result |-> result, now |-> t, before |-> old, auth |-> new,
   trace |-> trace, bearer |-> bearer, reply |-> reply, raised |-> raised,
   errors |-> errors]

\* insert_rows_json that posts before it looks at the token
insert_rows_json_post_first(auth, t, rows, result) ==
  LET refresh == expired(t, auth._token_expiration)
      got == IF refresh THEN _acquire_token(auth, t, result)
             ELSE [auth |-> auth, raised |-> NoneVal]
      trace == IF refresh THEN <<"post", "exchange">> ELSE <<"post">>
      reply == response(result)
      call(raised, errors) ==
        write_call(rows, result, t, auth, got.auth, trace, auth.token, reply,
                   raised, errors)
  IN IF got.raised # NoneVal THEN call(got.raised, <<>>)
     ELSE IF reply.status # 200 THEN call("write_error", <<>>)
     ELSE call(NoneVal, returned_errors(reply))

\* insert_rows_json that takes a non-200 response for a list of errors
insert_rows_json_lenient(auth, t, rows, result) ==
  LET refresh == expired(t, auth._token_expiration)
      got == IF refresh THEN _acquire_token(auth, t, result)
             ELSE [auth |-> auth, raised |-> NoneVal]
      exchange == IF refresh THEN <<"exchange">> ELSE <<>>
      reply == response(result)
      call(trace, bearer, answer, raised, errors) ==
        write_call(rows, result, t, auth, got.auth, trace, bearer, answer,
                   raised, errors)
  IN IF got.raised # NoneVal
       THEN call(exchange, NoNumber, NoReply, got.raised, <<>>)
     ELSE IF got.auth.token = NoNumber
       THEN call(exchange, NoNumber, NoReply, "attribute_error", <<>>)
     ELSE call(Append(exchange, "post"), got.auth.token, reply, NoneVal,
               returned_errors(reply))

\* insert_rows_json (lines 212-229) at time t. result is what the endpoints
\* do for this call: "auth_error" is a token endpoint that refuses (and an
\* insert endpoint that accepts), any other a token endpoint that grants and
\* the reply of the insert endpoint
insert_rows_json(auth, t, rows, result) ==
  LET refresh == expired(t, auth._token_expiration)
      got == IF refresh THEN _acquire_token(auth, t, result)
             ELSE [auth |-> auth, raised |-> NoneVal]
      exchange == IF refresh THEN <<"exchange">> ELSE <<>>
      reply == response(result)
      call(trace, bearer, answer, raised, errors) ==
        write_call(rows, result, t, auth, got.auth, trace, bearer, answer,
                   raised, errors)
  IN IF got.raised # NoneVal
       THEN call(exchange, NoNumber, NoReply, got.raised, <<>>)
     ELSE IF got.auth.token = NoNumber    \* self.token was never set
       THEN call(exchange, NoNumber, NoReply, "attribute_error", <<>>)
     ELSE IF reply.status # 200
       THEN call(Append(exchange, "post"), got.auth.token, reply,
                 "write_error", <<>>)
     ELSE call(Append(exchange, "post"), got.auth.token, reply, NoneVal,
               returned_errors(reply))

---------------------------------------------------------------------------
(* MessageHandler.record_messages *)

\* convert_to_row for the i-th level of a snapshot side
snapshot_row(side, i, timestamp) ==
  [kind |-> "snapshot", side |-> side, level |-> i, time |-> timestamp]

\* snapshots[0]['time'] (line 193)
time_of(snapshot) ==
  IF "time" \in DOMAIN snapshot THEN snapshot.time ELSE PyNone

\* l2update_row built from the last change triple
l2update_row_last(message) ==
  IF "changes" \in DOMAIN message
    THEN [kind |-> "l2update", time |-> message.time,
          side |-> message.changes[Len(message.changes)][1],
          level |-> Decimal(message.changes[Len(message.changes)][2]),
          depth |-> Decimal(message.changes[Len(message.changes)][3])]
    ELSE [kind |-> "l2update", side |-> 0, level |-> 0]

\* convert_to_row for a buffered l2update (lines 217-220): the row of
\* changes[0], with the time of the message; an event written without its
\* fields gives a row without them
l2update_row(message) ==
  IF "changes" \in DOMAIN message
    THEN [kind |-> "l2update", time |-> message.time,
          side |-> message.changes[1][1],
          level |-> Decimal(message.changes[1][2]),
          depth |-> Decimal(message.changes[1][3])]
    ELSE [kind |-> "l2update", side |-> 0, level |-> 0]

\* snapshot_rows that puts the bids first
snapshot_rows_bids_first(snapshot) ==
  [i \in 1..snapshot.bids |-> snapshot_row(-1, i, time_of(snapshot))]
  \o [i \in 1..snapshot.asks |-> snapshot_row(1, i, time_of(snapshot))]

\* asks + bids of a snapshot as rows: the asks (side 1), then the bids (-1)
snapshot_rows(snapshot) ==
  [i \in 1..snapshot.asks |-> snapshot_row(1, i, time_of(snapshot))]
  \o [i \in 1..snapshot.bids |-> snapshot_row(-1, i, time_of(snapshot))]

Min(a, b) == IF a < b THEN a ELSE b

\* insert_chunks whose loop ends at the first chunk that has row errors
RECURSIVE insert_chunks_halting(_, _, _, _, _)
insert_chunks_halting(rows, n, t, outs, acc) ==
  IF rows = <<>> THEN acc
  ELSE
    LET chunk == SubSeq(rows, 1, Min(n, Len(rows)))
        rest == SubSeq(rows, Min(n, Len(rows)) + 1, Len(rows))
        call == insert_rows_json(acc.auth, t, chunk, outs[Len(acc.writes) + 1])
        writes == Append(acc.writes, call)
    IN IF call.raised # NoneVal \/ call.errors # <<>>
         THEN [writes |-> writes, errors |-> acc.errors \o call.errors,
               raised |-> call.raised, auth |-> call.auth]
         ELSE insert_chunks_halting(rest, n, t, outs,
                [writes |-> writes, errors |-> acc.errors,
                 raised |-> NoneVal, auth |-> call.auth])

\* the while loop over chunker(asks + bids, n): one insert_rows per chunk;
\* a raising call ends the loop, row errors are collected and the loop goes on
RECURSIVE insert_chunks(_, _, _, _, _)
insert_chunks(rows, n, t, outs, acc) ==
  IF rows = <<>> THEN acc
  ELSE
    LET chunk == SubSeq(rows, 1, Min(n, Len(rows)))
        rest == SubSeq(rows, Min(n, Len(rows)) + 1, Len(rows))
        call == insert_rows_json(acc.auth, t, chunk, outs[Len(acc.writes) + 1])
        writes == Append(acc.writes, call)
    IN IF call.raised # NoneVal
         THEN [writes |-> writes, errors |-> acc.errors,
               raised |-> call.raised, auth |-> call.auth]
         ELSE insert_chunks(rest, n, t, outs,
                [writes |-> writes, errors |-> acc.errors \o call.errors,
                 raised |-> NoneVal, auth |-> call.auth])

\* insert_once that sends the rows a second time
insert_twice(auth, t, rows, outs) ==
  LET call == insert_rows_json(auth, t, rows, outs[1])
  IN [writes |-> <<call, call>>, errors |-> call.errors,
      raised |-> call.raised, auth |-> call.auth]

\* a single insert_rows call on all the rows
insert_once(auth, t, rows, outs) ==
  LET call == insert_rows_json(auth, t, rows, outs[1])
  IN [writes |-> <<call>>, errors |-> call.errors,
      raised |-> call.raised, auth |-> call.auth]

no_insert(auth, raised) ==
  [writes |-> <<>>, errors |-> <<>>, raised |-> raised, auth |-> auth]

\* the snapshots of a cache, in order (the list comprehension of line 184)
snapshots_of(messages) == SelectSeq(messages, LAMBDA m : m.type = "snapshot")

l2updates_of(messages) == SelectSeq(messages, LAMBDA m : m.type = "l2update")

\* record_orderbook without the test for a second snapshot: the first
\* snapshot found is written
record_orderbook_first(auth, t, messages, outs) ==
  IF \E i \in 1..Len(messages) : messages[i] = NoneEntry
    THEN no_insert(auth, "type_error")
  ELSE IF Len(snapshots_of(messages)) > 0
    THEN insert_chunks(snapshot_rows(snapshots_of(messages)[1]),
                       _INSERT_STREAMING_BATCH_SIZE, t, outs,
                       no_insert(auth, NoneVal))
  ELSE insert_once(auth, t, [i \in 1..Len(l2updates_of(messages)) |->
                               l2update_row(l2updates_of(messages)[i])], outs)

\* record_orderbook that sends the buffered l2updates after the snapshot
record_orderbook_both(auth, t, messages, outs) ==
  IF \E i \in 1..Len(messages) : messages[i] = NoneEntry
    THEN no_insert(auth, "type_error")
  ELSE IF Len(snapshots_of(messages)) > 1
    THEN no_insert(auth, "cache_overflow")
  ELSE
    LET l2 == [i \in 1..Len(l2updates_of(messages)) |->
                 l2update_row(l2updates_of(messages)[i])]
        done == IF Len(snapshots_of(messages)) > 0
                  THEN insert_chunks(snapshot_rows(snapshots_of(messages)[1]),
                                     _INSERT_STREAMING_BATCH_SIZE, t, outs,
                                     no_insert(auth, NoneVal))
                  ELSE no_insert(auth, NoneVal)
        more == insert_rows_json(done.auth, t, l2, outs[1])
    IN IF done.raised # NoneVal THEN done
       ELSE [writes |-> Append(done.writes, more),
             errors |-> done.errors \o more.errors,
             raised |-> more.raised, auth |-> more.auth]

\* the order-book branch of record_messages (lines 183-221)
record_orderbook(auth, t, messages, outs) ==
  IF \E i \in 1..Len(messages) : messages[i] = NoneEntry
    THEN no_insert(auth, "type_error")   \* None['type'] in the comprehension
  ELSE IF Len(snapshots_of(messages)) > 1
    THEN no_insert(auth, "cache_overflow")
  ELSE IF Len(snapshots_of(messages)) > 0
    THEN insert_chunks(snapshot_rows(snapshots_of(messages)[1]),
                       _INSERT_STREAMING_BATCH_SIZE, t, outs,
                       no_insert(auth, NoneVal))
  ELSE insert_once(auth, t, [i \in 1..Len(l2updates_of(messages)) |->
                               l2update_row(l2updates_of(messages)[i])], outs)

\* record_messages that goes on after a list of row errors
record_messages_tolerant(auth, t, table_ref, messages, outs) ==
  LET done == IF table_ref \in {TABLE_TRADES, TABLE_QUOTES}
                THEN insert_once(auth, t, messages, outs)
                ELSE record_orderbook(auth, t, messages, outs)
  IN [writes |-> done.writes, errors |-> done.errors, auth |-> done.auth,
      raised |-> done.raised]

\* record_messages at time t: the writes it issued, the error list it
\* collected and the error it raised, if any (lines 223-225)
record_messages(auth, t, table_ref, messages, outs) ==
  LET done == IF table_ref \in {TABLE_TRADES, TABLE_QUOTES}
                THEN insert_once(auth, t, messages, outs)
                ELSE record_orderbook(auth, t, messages, outs)
  IN [writes |-> done.writes, errors |-> done.errors, auth |-> done.auth,
      raised |-> IF done.raised # NoneVal THEN done.raised
                 ELSE IF done.errors # <<>> THEN "insert_errors"
                 ELSE NoneVal]

---------------------------------------------------------------------------
(* MessageHandler._process_message and process_message *)

\* _recieve_message that hands on whatever is not a closed signal
_recieve_message_any(frame) ==
  CASE frame.kind = "CLOSED" -> "closed"
    [] OTHER -> NoneVal

\* WebSocket._recieve_message: the error a frame raises, if any
_recieve_message(frame) ==
  CASE frame.kind = "TEXT" -> NoneVal
    [] frame.kind = "CLOSED" -> "closed"
    [] frame.kind = "TIMEOUT" -> "timeout"
    [] OTHER -> "not_text"

\* the result of _process_message: the error raised (or NoneVal), the
\* validated message, the counters and caches as it leaves them, and
\* whether it awaited get_product_order_book
processed(raised, message, seqs, cache) ==
  [raised |-> raised, message |-> message, sequences |-> seqs,
   message_cache |-> cache, fetched |-> FALSE]

\* fetches that is satisfied by every sequence
fetches_always(message) == TRUE

\* the test of line 331: the sequence is a multiple of _ORDERBOOK_SNAPSHOT_ON
fetches(message) == message.sequence % _ORDERBOOK_SNAPSHOT_ON = 0

\* line 332: p is what _process_message does after, or instead of, the
\* answer to the request it awaited when fetch holds
after_fetch(fetch, p) == IF fetch THEN [p EXCEPT !.fetched = TRUE] ELSE p

\* unknown_type that knows every type
unknown_type_none(type) == FALSE

\* the else of line 369: the type is none of MESSAGE_TYPES
unknown_type(type) == type \notin MESSAGE_TYPES

\* lines 331-372: the messages that are none of error, subscriptions,
\* snapshot, l2update. rest is what get_product_order_book comes to.
_process_trade_quote(seqs, cache, ds, message, rest) ==
  IF message.sequence = NoNumber
    THEN processed("key_error", message, seqs, cache)
  ELSE
    LET fetch == fetches(message)
        pid == message.product_id
        cache1 == IF fetch /\ ds
                    THEN cache_append(cache, pid, TABLE_ORDERBOOK, NoneEntry)
                    ELSE cache
    IN after_fetch(fetch,
         IF fetch /\ rest = "fail"
           THEN processed("rest_failed", message, seqs, cache)
         ELSE IF unknown_type(message.type)
           THEN processed("unknown_message", message, seqs, cache1)
         ELSE IF out_of_sequence(seqs[pid], message.sequence)
           THEN processed("out_of_sequence", message, seqs, cache1)
         ELSE processed(NoneVal, message,
                [seqs EXCEPT ![pid] = next_sequence(message.sequence)],
                IF ds
                  THEN cache_append(cache1, pid,
                                    trade_quote_table(message.type), message)
                  ELSE cache1))

\* _process_orderbook that counts the message like a trade or a quote
_process_orderbook_counted(seqs, cache, ds, message) ==
  processed(NoneVal, message,
            [seqs EXCEPT ![message.product_id] = next_sequence(@)],
            IF ds
              THEN cache_append(cache, message.product_id, TABLE_ORDERBOOK,
                                message)
              ELSE cache)

\* lines 314-329: a snapshot or an l2update is appended to the order-book
\* batch and returned; the counters are not looked at
_process_orderbook(seqs, cache, ds, message) ==
  processed(NoneVal, message, seqs,
            IF ds
              THEN cache_append(cache, message.product_id, TABLE_ORDERBOOK,
                                message)
              ELSE cache)

_process_message(seqs, cache, ds, frame, rest, t) ==
  IF _recieve_message(frame) # NoneVal
    THEN processed(_recieve_message(frame), NoneEntry, seqs, cache)
  ELSE IF validation_error(frame.data) # NoneVal
    THEN processed(validation_error(frame.data), NoneEntry, seqs, cache)
  ELSE
    LET message == _validate_message(frame.data, t)
    IN IF message.type = "error"
         THEN processed("error_message", message, seqs, cache)
       ELSE IF message.type = "subscriptions"
         THEN processed(NoneVal, message, seqs, cache)
       ELSE IF message.type \in {"snapshot", "l2update"}
         THEN _process_orderbook(seqs, cache, ds, message)
       ELSE _process_trade_quote(seqs, cache, ds, message, rest)

\* cache_clear that leaves the last row, the one that crossed the threshold
cache_clear_last(cache, pid, table_ref) ==
  [cache EXCEPT ![pid][table_ref] = <<@[Len(@)]>>]

\* cache_clear that leaves the snapshots in the list
cache_clear_keep(cache, pid, table_ref) ==
  [cache EXCEPT ![pid][table_ref] = snapshots_of(@)]

\* cache_clear that empties every batch of the instrument
cache_clear_all(cache, pid, table_ref) ==
  [cache EXCEPT ![pid] = [t \in tables |-> <<>>]]

\* cache_clear that takes the snapshots out and leaves the l2updates
cache_clear_snapshots(cache, pid, table_ref) ==
  [cache EXCEPT ![pid][table_ref] = l2updates_of(@)]

\* list.clear() on message_cache[pid][table_ref]
cache_clear(cache, pid, table_ref) ==
  [cache EXCEPT ![pid][table_ref] = <<>>]

\* exceeds that is satisfied by a batch of exactly batch_size rows
exceeds_or_equals(batch_size, cache) == batch_size <= Len(cache)

\* exceeds that waits for one row more
exceeds_late(batch_size, cache) == batch_size + 1 < Len(cache)

\* the test that sends a cache to record_messages (line 279)
exceeds(batch_size, cache) == batch_size < Len(cache)

\* what one process_message call did
outcome(raised, p, table_ref, pid, recorded, drained, r, cleared, cache) ==
  [raised |-> raised, message |-> p.message, sequences |-> p.sequences,
   accepted |-> p.raised = NoneVal, appended |-> p.message_cache,
   message_cache |-> cache, table_ref |-> table_ref, pid |-> pid,
   recorded |-> recorded, drained |-> drained, writes |-> r.writes,
   errors |-> r.errors, auth |-> r.auth, cleared |-> cleared,
   fetched |-> p.fetched]

\* process_message (lines 259-287), called at time t with the credentials
\* auth; outs is what the endpoints do for each insert_rows call it makes
process_message(seqs, cache, ds, auth, t, batch_size, frame, rest, outs) ==
  LET p == _process_message(seqs, cache, ds, frame, rest, t)
      c == _retrieve_message_cache(p.message_cache, p.message)
      none == no_insert(auth, NoneVal)
  IN IF p.raised # NoneVal \/ ~ds
       THEN outcome(p.raised, p, NoneVal, NoneVal, FALSE, <<>>, none, FALSE,
                    p.message_cache)
     ELSE IF c.raised # NoneVal
       THEN outcome(c.raised, p, NoneVal, NoneVal, FALSE, <<>>, none, FALSE,
                    p.message_cache)
     ELSE IF ~exceeds(batch_size, c.cache)
       THEN outcome(NoneVal, p, c.table_ref, c.pid, FALSE, <<>>, none, FALSE,
                    p.message_cache)
     ELSE IF c.table_ref = NoneVal
       THEN outcome("key_error", p, c.table_ref, c.pid, TRUE, c.cache, none,
                    FALSE, p.message_cache)
     ELSE
       LET r == record_messages(auth, t, c.table_ref, c.cache, outs)
       IN IF r.raised # NoneVal
            THEN outcome(r.raised, p, c.table_ref, c.pid, TRUE, c.cache,
                         r, FALSE, p.message_cache)
            ELSE outcome(NoneVal, p, c.table_ref, c.pid, TRUE, c.cache,
                         r, TRUE,
                         cache_clear(p.message_cache, c.pid, c.table_ref))

---------------------------------------------------------------------------
(* The session and its supervisor (main.py) *)

\* the most insert_rows calls one drain can need
MaxChunks ==
  IF MaxAsks + MaxBids = 0 THEN 1
  ELSE (MaxAsks + MaxBids + _INSERT_STREAMING_BATCH_SIZE - 1)
         \div _INSERT_STREAMING_BATCH_SIZE

AllOk == [i \in 1..MaxChunks |-> "ok"]

\* the answers of the endpoints that matter to this call: one for each
\* insert_rows call it makes when none of them raises
Answers(seqs, cache, ds, frame, results) ==
  LET calls == Len(process_message(seqs, cache, ds, init_credentials(0), 1,
                                   _INSERT_STREAMING_BATCH_SIZE, frame, "ok",
                                   AllOk).writes)
  IN {outs \in [1..MaxChunks -> results] :
        \A i \in 1..MaxChunks : i > calls => outs[i] = "ok"}

\* the answers of the REST endpoint that matter to this call
RestAnswers(frame) ==
  IF frame.data.sequence % _ORDERBOOK_SNAPSHOT_ON = 0
    THEN {"ok", "fail"}
    ELSE {"ok"}

NoStep ==
  [called |-> FALSE, raised |-> NoneVal, message |-> NoneEntry,
   accepted |-> FALSE, current_seq |-> 0, snapshots_before |-> 0,
   appended |-> {}, table_ref |-> NoneVal,
   pid |-> NoneVal, recorded |-> FALSE, drained |-> <<>>, writes |-> <<>>,
   errors |-> <<>>, cleared |-> FALSE, fetched |-> FALSE]

\* the caches the message itself was appended to by _process_message
appended_to(before, after, message) ==
  {c \in (DOMAIN before) \X tables :
     after[c[1]][c[2]] = Append(before[c[1]][c[2]], message)}

NoDrain == [table_ref |-> NoneVal, pid |-> NoneVal, drained |-> <<>>]

\* nothing was received
NoFrame == [kind |-> NoneVal, data |-> NoneEntry]

\* no call is in progress
NoCall == [awaits |-> <<>>]

\* nothing was discarded
NoPrevious == [counter |-> FALSE, rows |-> FALSE]

\* what a handler with these counters and caches takes with it when it is
\* discarded: whether a counter is above 0, whether a batch holds rows
discarded(seqs, cache) ==
  [counter |-> \E p \in DOMAIN seqs : seqs[p] # 0,
   rows |-> \E p \in DOMAIN cache : \E t \in tables : cache[p][t] # <<>>]

\* after_call of a loop that swallows the error and goes on
after_call_swallow(raised) == "streaming"

\* main() has no handler around process_message: the loop goes on after a
\* call that returned and is left by one that raised
after_call(raised) == IF raised = NoneVal THEN "streaming" ELSE "failed"

\* _validate_message was applied to nothing
NoNormalized ==
  [applied |-> 0, raised |-> NoneVal, message |-> NoneEntry,
   first |-> NoneEntry]

\* the process is started with these product ids, with or without storage,
\* and main() is given one of these subscription requests; events are the
\* events _validate_message is applied to by itself
InitGiven(products, requests, events) ==
  /\ pc = "idle"
  /\ argv = products
  /\ service_file \in BOOLEAN
  /\ product_ids = {}
  /\ datasets = FALSE
  /\ sequences = init_sequences({})
  /\ message_cache = _init_message_cache({})
  /\ frames = 0
  /\ step = NoStep
  /\ last_drain = NoDrain
  /\ now = 0
  /\ _token_expiration = NoNumber
  /\ token = NoNumber
  /\ previous = NoPrevious
  /\ inflight = NoCall
  /\ subscribe_message \in requests
  /\ websocket = NoConnection
  /\ received = NoFrame
  /\ normalized \in {[NoNormalized EXCEPT !.message = e] : e \in events}

\* the process as __main__ starts it: main() is given no subscribe_message
InitWith(products) == InitGiven(products, {NoSubscribe}, {NoneEntry})

\* MessageHandler(...) raises in WebSocket.__init__: there is no handler,
\* no connection is entered, and the error leaves main()
Refused ==
  /\ pc' = "failed"
  /\ product_ids' = {}
  /\ datasets' = FALSE
  /\ sequences' = init_sequences({})
  /\ message_cache' = _init_message_cache({})
  /\ step' = [NoStep EXCEPT !.raised = "not_implemented"]
  /\ _token_expiration' = NoNumber
  /\ token' = NoNumber
  /\ websocket' = NoConnection

\* MessageHandler(...) is constructed
Constructed ==
  /\ product_ids' = {replace(p) : p \in argv}
  /\ datasets' = service_file
  /\ sequences' = init_sequences(product_ids')
  /\ message_cache' = _init_message_cache(product_ids')
  /\ step' = NoStep
  /\ _token_expiration' =
       IF service_file THEN init_credentials(now')._token_expiration
       ELSE NoNumber
  /\ token' = init_credentials(now').token

\* MessageHandler(...) is constructed and the connection entered
Entered ==
  /\ pc' = "streaming"
  /\ Constructed
  /\ websocket' = __init_connection__(_subscribe(subscribe_message, argv))

\* main() up to its loop: async with MessageHandler(...) as exchange
StartSession ==
  /\ pc = "idle"
  /\ now' = 0
  /\ IF unsupported(_subscribe(subscribe_message, argv))
       THEN Refused
       ELSE Entered
  /\ frames' = 0
  /\ last_drain' = NoDrain
  /\ previous' = discarded(sequences, message_cache)
  /\ received' = NoFrame
  /\ UNCHANGED <<argv, service_file, inflight, subscribe_message,
                 normalized>>

\* what a process_message call that started with the counters seqs and the
\* caches cache did
step_of(o, seqs, cache) ==
  [called |-> TRUE, raised |-> o.raised, message |-> o.message,
   accepted |-> o.accepted,
   current_seq |->
     IF o.message.product_id \in DOMAIN seqs
       THEN seqs[o.message.product_id] ELSE 0,
   snapshots_before |->
     IF o.message.product_id \in DOMAIN cache
       THEN Len(snapshots_of(cache[o.message.product_id][TABLE_ORDERBOOK]))
       ELSE 0,
   appended |-> appended_to(cache, o.appended, o.message),
   table_ref |-> o.table_ref, pid |-> o.pid, recorded |-> o.recorded,
   drained |-> o.drained, writes |-> o.writes, errors |-> o.errors,
   cleared |-> o.cleared, fetched |-> o.fetched]

\* the last drain completed, after a call that did o
drain_of(o, last) ==
  IF o.cleared
    THEN [table_ref |-> o.table_ref, pid |-> o.pid, drained |-> o.drained]
    ELSE last

\* receiving of a loop that reads the next frame while the call before is
\* still awaiting its write
receiving_early(position) == position \in {"streaming", "writing"}

\* the while loop of main() awaits each process_message call before the
\* next: a frame is read only at the top of the loop
receiving(position) == position = "streaming"

\* a process_message call that started with the counters seqs and the
\* caches cache returns or raises, having done o
Returned(o, seqs, cache) ==
  /\ sequences' = o.sequences
  /\ message_cache' = o.message_cache
  /\ _token_expiration' = o.auth._token_expiration
  /\ token' = o.auth.token
  /\ pc' = after_call(o.raised)
  /\ last_drain' = drain_of(o, last_drain)
  /\ step' = step_of(o, seqs, cache)
  /\ websocket' = IF o.raised = NoneVal THEN websocket
                  ELSE __aexit__(websocket)

\* one turn of the while loop of main(): await exchange.process_message(),
\* on one of the frames the feed can send, one of the given clock ticks
\* after the turn before, with one of the given results for each write
Receive(feed, limit, ticks, results) ==
  /\ receiving(pc)
  /\ frames < limit
  /\ \E dt \in ticks : now' = now + dt
  /\ \E frame \in feed :
       \E rest \in RestAnswers(frame) :
         \E outs \in Answers(sequences, message_cache, datasets, frame,
                              results) :
           LET o == process_message(sequences, message_cache, datasets,
                                    credentials(_token_expiration, token),
                                    now', _INSERT_STREAMING_BATCH_SIZE,
                                    frame, rest, outs)
           IN Returned(o, sequences, message_cache) /\ received' = frame
  /\ frames' = frames + 1
  /\ previous' = NoPrevious
  /\ UNCHANGED <<argv, service_file, product_ids, datasets, inflight,
                 subscribe_message, normalized>>

\* Restart of a supervisor that gives up after a failure
RestartNever ==
  /\ pc = "failed"
  /\ pc' = "stopped"
  /\ UNCHANGED <<argv, service_file, product_ids, datasets, sequences,
                 message_cache, frames, step, last_drain, now,
                 _token_expiration, token, previous, inflight,
                 subscribe_message, websocket, received, normalized>>

\* the except/finally of the supervisor loop: whatever main() raised, sleep
\* for RESTART_DELAY, log, and go round the loop to run main() again
Restart ==
  /\ pc = "failed"
  /\ pc' = "idle"
  /\ now' = now + RESTART_DELAY
  /\ UNCHANGED <<argv, service_file, product_ids, datasets, sequences,
                 message_cache, frames, step, last_drain,
                 _token_expiration, token, previous, inflight,
                 subscribe_message, websocket, received, normalized>>

---------------------------------------------------------------------------
(* Spec: one instrument, sessions long enough to fill and drain a batch *)

FeedTypes == {"match", "received", "done"}

Init == InitWith({"BTC-USD"})

\* the clock moves by one unit from one call to the next
Steady == {1}

ProcessMessage ==
  Receive(Frames(FeedTypes, argv), MaxFrames, Steady, WriteResults)

Next == StartSession \/ ProcessMessage \/ Restart

Spec == Init /\ [][Next]_vars

---------------------------------------------------------------------------
(* Claims *)

\* the last call processed a trade/quote message that reached the sequence
\* test (the order-book fetch of line 332, taken first, did not fail)
GuardReached ==
  /\ step.called
  /\ step.message.type \in MESSAGE_TYPES
  /\ step.raised # "rest_failed"

\* C1: a trade/quote message is accepted iff the stored counter of its
\* instrument is 0 or equals its sequence; on acceptance the counter becomes
\* sequence + 1, otherwise the out-of-sequence error is raised. So after
\* sequence s is accepted, s again and s + 2 are refused.
C1_SequenceGuard ==
  GuardReached =>
    IF step.current_seq = 0 \/ step.message.sequence = step.current_seq
      THEN /\ step.accepted
           /\ step.raised # "out_of_sequence"
           /\ sequences[step.message.product_id] = step.message.sequence + 1
      ELSE /\ ~step.accepted
           /\ step.raised = "out_of_sequence"

\* a gap is refused: after s was accepted (counter s + 1), s + 2 arrives
C1_Witness ==
  /\ GuardReached
  /\ step.current_seq > 0
  /\ step.message.sequence = step.current_seq + 1
  /\ step.raised = "out_of_sequence"

\* C2: a sequence violation ends the session: once process_message has
\* raised it the loop of main() is left, no further frame of the session is
\* processed, and a message that fails the test never passes unnoticed.
C2_ViolationIsFatal ==
  /\ step.raised = "out_of_sequence" => pc \in {"failed", "idle"}
  /\ (/\ GuardReached
      /\ step.current_seq # 0
      /\ step.message.sequence # step.current_seq)
       => step.raised = "out_of_sequence" /\ pc # "streaming"

\* a duplicate was refused and the supervisor has taken over
C2_Witness ==
  /\ step.raised = "out_of_sequence"
  /\ step.message.sequence + 1 = step.current_seq
  /\ pc = "idle"


\* the snapshots waiting in the order-book cache of product p
Pending(p) == snapshots_of(message_cache[p][TABLE_ORDERBOOK])

\* the last call processed a feed snapshot with storage on
SnapshotStep ==
  /\ step.called
  /\ datasets
  /\ step.message.type = "snapshot"

\* the last call sent the order-book cache to record_messages
OrderbookDrain ==
  /\ step.recorded
  /\ step.table_ref = TABLE_ORDERBOOK

SnapshotWritten ==
  /\ last_drain.table_ref = TABLE_ORDERBOOK
  /\ Len(snapshots_of(last_drain.drained)) = 1

\* C5: snapshot, successful drain, snapshot: the drain that wrote the
\* pending snapshot left none pending, and a snapshot that arrives when none
\* is pending is stored without the cache-overflow error.
C5_SnapshotAfterDrain ==
  /\ (step.cleared /\ OrderbookDrain) => Pending(step.pid) = <<>>
  /\ (SnapshotStep /\ step.snapshots_before = 0) =>
       /\ step.appended = {<<step.message.product_id, TABLE_ORDERBOOK>>}
       /\ step.raised # "cache_overflow"
       /\ ~step.cleared => Len(Pending(step.message.product_id)) = 1

\* a snapshot was stored after a drain of this session had written one
C5_Witness ==
  /\ SnapshotWritten
  /\ SnapshotStep
  /\ ~step.recorded
  /\ step.raised = NoneVal
  /\ Pending(step.message.product_id) = <<step.message>>


\* all the rows of a sequence of write calls, in the order sent
RECURSIVE rows_written(_)
rows_written(writes) ==
  IF writes = <<>> THEN <<>>
  ELSE writes[1].rows \o rows_written(Tail(writes))

IsPrefix(a, b) == Len(a) <= Len(b) /\ a = SubSeq(b, 1, Len(a))

\* the rows a drain builds from the l2updates of a batch, one per l2update
l2_rows(messages) ==
  [i \in 1..Len(l2updates_of(messages)) |->
     l2update_row(l2updates_of(messages)[i])]

\* C6: a drain of an order-book batch writes rows of one kind only: with a
\* snapshot pending, rows of that snapshot and nothing else (all of them
\* when the drain completes); with none pending, the rows of the buffered
\* l2updates in a single call.
C6_OneKindPerDrain ==
  OrderbookDrain =>
    LET snaps == snapshots_of(step.drained)
        rows == rows_written(step.writes)
    IN IF Len(snaps) >= 1
         THEN /\ \A i \in 1..Len(rows) : rows[i].kind = "snapshot"
              /\ IsPrefix(rows, snapshot_rows(snaps[1]))
              /\ step.raised \in {NoneVal, "insert_errors"} =>
                   rows = snapshot_rows(snaps[1])
         ELSE /\ \A i \in 1..Len(rows) : rows[i].kind = "l2update"
              /\ step.raised # "type_error" =>
                   /\ Len(step.writes) = 1
                   /\ rows = l2_rows(step.drained)

\* a snapshot was drained from a batch that also held l2updates
C6_Witness ==
  /\ OrderbookDrain
  /\ step.cleared
  /\ Len(snapshots_of(step.drained)) = 1
  /\ Len(l2updates_of(step.drained)) >= 1
  /\ Len(rows_written(step.writes)) >= 1

\* the last call appended its message to a batch and went on to the test of
\* that batch's size
SizeChecked ==
  /\ step.called
  /\ datasets
  /\ step.accepted
  /\ step.table_ref # NoneVal

\* the size the test saw: the rows handed to the drain, or else the batch
\* as it still is
SizeSeen ==
  IF step.recorded THEN Len(step.drained)
  ELSE Len(message_cache[step.pid][step.table_ref])

\* C7: after a message is appended to batch (instrument, table), exactly
\* that batch is handed to the drain in the same call iff it now holds more
\* rows than the threshold; otherwise the call writes nothing. A call that
\* appends to no batch drains and writes nothing.
C7_DrainIffExceeds ==
  /\ SizeChecked =>
       /\ <<step.pid, step.table_ref>> \in step.appended
       /\ step.recorded <=> SizeSeen > _INSERT_STREAMING_BATCH_SIZE
       /\ (step.recorded /\ step.table_ref # TABLE_ORDERBOOK) =>
            /\ Len(step.writes) = 1
            /\ step.writes[1].rows = step.drained
       /\ (step.recorded /\ step.raised = NoneVal) => step.cleared
  /\ ~step.recorded => (step.writes = <<>> /\ ~step.cleared)
  /\ ~SizeChecked => ~step.recorded

\* the row that crossed the threshold was written with the batch
C7_Witness ==
  /\ SizeChecked
  /\ step.table_ref = TABLE_QUOTES
  /\ Len(step.drained) = _INSERT_STREAMING_BATCH_SIZE + 1
  /\ step.writes # <<>>
  /\ step.cleared

\* C8: after a drain that completed, the batch it drained is empty and its
\* size is 0.
C8_DrainEmpties ==
  (step.recorded /\ step.raised = NoneVal) =>
    /\ step.cleared
    /\ message_cache[step.pid][step.table_ref] = <<>>
    /\ Len(message_cache[step.pid][step.table_ref]) = 0

\* a full trades batch was written and is empty now
C8_Witness ==
  /\ step.cleared
  /\ step.table_ref = TABLE_TRADES
  /\ Len(step.drained) > _INSERT_STREAMING_BATCH_SIZE
  /\ message_cache[step.pid][TABLE_TRADES] = <<>>

\* ceil(n / _INSERT_STREAMING_BATCH_SIZE)
Chunks(n) ==
  (n + _INSERT_STREAMING_BATCH_SIZE - 1) \div _INSERT_STREAMING_BATCH_SIZE

\* C9 as stated: one processed message issues at most one bulk write.
C9_Original == Len(step.writes) <= 1

\* C9 as amended: one processed message issues at most one bulk write,
\* except when it drains a pending snapshot of n rows: then it issues one
\* write per chunk of at most 500 rows (here the scaled size), ceil(n/500)
\* of them unless a write raises.
C9_WritesPerMessage ==
  IF OrderbookDrain /\ Len(snapshots_of(step.drained)) = 1
    THEN LET n == Len(snapshot_rows(snapshots_of(step.drained)[1]))
         IN /\ Len(step.writes) <= Chunks(n)
            /\ \A i \in 1..Len(step.writes) :
                 Len(step.writes[i].rows) <= _INSERT_STREAMING_BATCH_SIZE
            /\ step.raised \in {NoneVal, "insert_errors"} =>
                 Len(step.writes) = Chunks(n)
    ELSE Len(step.writes) <= 1

\* a snapshot drain that took more than one write
C9_Witness ==
  /\ OrderbookDrain
  /\ step.cleared
  /\ Len(step.writes) > 1

---------------------------------------------------------------------------
(* SpecTypes: one instrument, every trade/quote type, sessions that end *)
(* before a batch can fill                                               *)

ProcessAnyType ==
  Receive(Frames(MESSAGE_TYPES, argv), _INSERT_STREAMING_BATCH_SIZE, Steady,
          WriteResults)

NextTypes == StartSession \/ ProcessAnyType \/ Restart

SpecTypes == Init /\ [][NextTypes]_vars

\* C10: an accepted message is appended to exactly one batch, of its own
\* instrument: a match to trades, any other trade/quote type to quotes, a
\* snapshot or l2update to the order book; a subscriptions message to none.
C10_Routing ==
  (step.called /\ datasets /\ step.accepted) =>
    LET m == step.message
    IN CASE m.type = "match" ->
              step.appended = {<<m.product_id, TABLE_TRADES>>}
         [] m.type \in {"received", "open", "closed", "done", "change",
                        "activate"} ->
              step.appended = {<<m.product_id, TABLE_QUOTES>>}
         [] m.type \in {"snapshot", "l2update"} ->
              step.appended = {<<m.product_id, TABLE_ORDERBOOK>>}
         [] m.type = "subscriptions" -> step.appended = {}
         [] OTHER -> FALSE

\* a match followed a quote: one in each batch
C10_Witness ==
  /\ step.called /\ datasets /\ step.accepted
  /\ step.message.type = "match"
  /\ step.appended = {<<"BTC_USD", TABLE_TRADES>>}
  /\ Len(message_cache["BTC_USD"][TABLE_QUOTES]) = 1
  /\ message_cache["BTC_USD"][TABLE_QUOTES][1].type = "activate"


---------------------------------------------------------------------------
(* SpecWriter: one instrument, an order-book feed, sessions long enough   *)
(* for two drains, and a clock that moves unevenly, so that the second    *)
(* drain finds the token of the first fresh, at its expiry or expired     *)

WriterFrames == 2 * (_INSERT_STREAMING_BATCH_SIZE + 1)

\* the clock moves by one or two units from one call to the next
Uneven == {1, 2}

\* l2updates, the largest snapshot, and the closed signal
WriterFeed ==
  {[kind |-> "TEXT", data |-> e] :
     e \in L2UpdateEvents(argv)
           \cup {Event("snapshot", p, NoNumber, MaxAsks, MaxBids) : p \in argv}}
  \cup {[kind |-> "CLOSED", data |-> NoneEntry]}

ProcessTimed == Receive(WriterFeed, WriterFrames, Uneven, ResponseResults)

NextWriter == StartSession \/ ProcessTimed \/ Restart

SpecWriter == Init /\ [][NextWriter]_vars

\* the insert_rows calls of the last process_message call
Calls == {step.writes[i] : i \in 1..Len(step.writes)}

Posted(w) == \E k \in 1..Len(w.trace) : w.trace[k] = "post"

Exchanges(w) == {k \in 1..Len(w.trace) : w.trace[k] = "exchange"}

\* C11: no bulk-write request is sent with a token whose expiry is at or
\* before the current time: whenever insert_rows_json sends the POST, now is
\* before the expiry of the token it attaches.
C11_NoExpiredBearer ==
  \A w \in Calls : Posted(w) => w.now < w.bearer

\* C12: a write attempted when now >= expiry issues exactly one token
\* exchange, which completes before the POST is sent; a write attempted when
\* now < expiry issues none.
C12_RefreshWhenDue ==
  \A w \in Calls :
    IF w.now >= w.before._token_expiration
      THEN /\ Cardinality(Exchanges(w)) = 1
           /\ w.trace[1] = "exchange"
      ELSE Exchanges(w) = {}

\* C13: a token exchange that fails leaves the stored expiry and the stored
\* token as they were before the call.
C13_FailureKeepsExpiry ==
  \A w \in Calls :
    w.raised = "auth_error" =>
      /\ w.auth._token_expiration = w.before._token_expiration
      /\ w.auth.token = w.before.token

\* the write made a token exchange and the token endpoint refused it
ExchangeRefused(w) ==
  /\ Exchanges(w) # {}
  /\ w.result = "auth_error"

\* C14: when the token exchange a write needs does not return success, the
\* write fails with the auth error, no POST is sent for it, it is the last
\* write of the drain, the batch is not cleared and the session ends.
C14_AuthErrorIsFatal ==
  \A i \in 1..Len(step.writes) :
    ExchangeRefused(step.writes[i]) =>
      /\ step.writes[i].raised = "auth_error"
      /\ ~Posted(step.writes[i])
      /\ i = Len(step.writes)
      /\ step.raised = "auth_error"
      /\ ~step.cleared
      /\ pc # "streaming"

\* the token endpoint refused the first write of a snapshot drain
C14_Witness ==
  /\ step.raised = "auth_error"
  /\ Len(step.writes) = 1
  /\ ExchangeRefused(step.writes[1])
  /\ Len(snapshots_of(step.drained)) = 1
  /\ pc = "failed"

\* C15: a 200 response is returned as an error list with one entry per
\* entry of its insertErrors, so the list is empty exactly when the response
\* reports no row; a drain that collected a non-empty list raises, leaves
\* the batch as it is and ends the session.
C15_RowErrorsAreFatal ==
  /\ \A w \in Calls :
       w.reply.status = 200 =>
         /\ w.raised = NoneVal
         /\ Len(w.errors) = Len(w.reply.insertErrors)
         /\ w.errors = <<>> <=> w.reply.insertErrors = <<>>
  /\ (\E w \in Calls : w.errors # <<>>) =>
       /\ step.raised \in {"insert_errors", "write_error"}
       /\ ~step.cleared
       /\ pc # "streaming"
  /\ (step.recorded /\ step.raised = NoneVal) =>
       \A w \in Calls : w.reply.insertErrors = <<>>

\* every write of a drain got a 200 response, one reported a row: the drain
\* went on to the last chunk and then raised
C15_Witness ==
  /\ step.raised = "insert_errors"
  /\ Len(step.writes) > 1
  /\ step.writes[1].errors # <<>>
  /\ step.writes[Len(step.writes)].errors = <<>>
  /\ pc = "failed"

\* C16: a response with a non-200 status makes the write raise the write
\* error, whatever its body holds; no error list is returned, no further
\* write is made, the batch is not cleared and the session ends.
C16_BadStatusIsFatal ==
  \A i \in 1..Len(step.writes) :
    (Posted(step.writes[i]) /\ step.writes[i].reply.status # 200) =>
      /\ step.writes[i].raised = "write_error"
      /\ step.writes[i].errors = <<>>
      /\ i = Len(step.writes)
      /\ step.raised = "write_error"
      /\ ~step.cleared
      /\ pc # "streaming"

\* a non-200 response whose body reports row errors
C16_Witness ==
  /\ step.raised = "write_error"
  /\ step.writes[Len(step.writes)].reply.status = 500
  /\ step.writes[Len(step.writes)].reply.insertErrors # <<>>
  /\ pc = "failed"


\* the last call handed a batch to the drain and the drain did not complete
Unaccepted ==
  /\ step.recorded
  /\ ~step.cleared
  /\ step.table_ref # NoneVal

\* C17: every batch that crossed the threshold is eventually accepted by
\* the destination, also when its write fails and the supervisor restarts
\* the session. The feed sends no message twice, so the rows can only be
\* accepted later if the program still holds them: no step discards the
\* rows of a batch whose drain did not complete.
C17_AtLeastOnce ==
  [][Unaccepted =>
       /\ step.pid \in DOMAIN message_cache'
       /\ IsPrefix(step.drained, message_cache'[step.pid][step.table_ref])
    ]_vars

\* a session has just been started
Fresh ==
  /\ pc = "streaming"
  /\ frames = 0

\* C19: every new session starts with the counter of every instrument at 0
\* and every batch empty, whatever the session before left behind.
C19_FreshSession ==
  Fresh =>
    /\ DOMAIN sequences = product_ids
    /\ \A p \in product_ids : sequences[p] = 0
    /\ \A p \in DOMAIN message_cache :
         \A t \in tables : message_cache[p][t] = <<>>

\* a session started after one that ended with a counter above 0 and rows
\* in a batch
C19_Witness ==
  /\ Fresh
  /\ previous.counter
  /\ previous.rows
  /\ sequences["BTC_USD"] = 0
  /\ message_cache["BTC_USD"][TABLE_QUOTES] = <<>>

---------------------------------------------------------------------------
(* SpecSupervised: SpecWriter with a supervisor loop that keeps running:  *)
(* the sleep of the except branch returns and main() is run again         *)

SpecSupervised ==
  /\ SpecWriter
  /\ WF_vars(Restart)
  /\ WF_vars(StartSession)

---------------------------------------------------------------------------
(* SpecSteps: the session of SpecWriter on a steady clock, with each      *)
(* process_message call followed from await to await: the call is begun,  *)
(* and every token exchange and POST it awaits returns in a step of its   *)
(* own                                                                    *)

\* the awaits of a sequence of insert_rows calls, in order
RECURSIVE awaits_of(_)
awaits_of(writes) ==
  IF writes = <<>> THEN <<>>
  ELSE writes[1].trace \o awaits_of(Tail(writes))

\* a process_message call that started with the counters seqs and the
\* caches cache, and is to do o, has run up to its first await of an
\* endpoint: the message is counted and appended, and the expiry is moved
\* before the exchange is sent; without such an await it has returned or
\* raised
Begun(o, seqs, cache) ==
  IF awaits_of(o.writes) = <<>>
    THEN /\ Returned(o, seqs, cache)
         /\ inflight' = NoCall
    ELSE /\ sequences' = o.sequences
         /\ message_cache' = o.appended
         /\ _token_expiration' = o.writes[1].auth._token_expiration
         /\ pc' = "writing"
         /\ inflight' = [awaits |-> awaits_of(o.writes), outcome |-> o,
                         sequences |-> seqs, message_cache |-> cache]
         /\ UNCHANGED <<token, step, last_drain, websocket>>

\* process_message up to its first await of an endpoint: the frame is read,
\* the message processed and appended; a call that awaits no endpoint
\* returns or raises at once
Begin(feed, limit, ticks, results) ==
  /\ receiving(pc)
  /\ frames < limit
  /\ \E dt \in ticks : now' = now + dt
  /\ \E frame \in feed :
       \E rest \in RestAnswers(frame) :
         \E outs \in Answers(sequences, message_cache, datasets, frame,
                              results) :
           LET o == process_message(sequences, message_cache, datasets,
                                    credentials(_token_expiration, token),
                                    now', _INSERT_STREAMING_BATCH_SIZE,
                                    frame, rest, outs)
           IN Begun(o, sequences, message_cache) /\ received' = frame
  /\ frames' = frames + 1
  /\ previous' = NoPrevious
  /\ UNCHANGED <<argv, service_file, product_ids, datasets,
                 subscribe_message, normalized>>

\* the endpoint answers the await the call is suspended at: the call goes
\* on to its next await, or returns or raises
AwaitReturns ==
  /\ pc = "writing"
  /\ inflight.awaits # <<>>
  /\ IF Tail(inflight.awaits) = <<>>
       THEN /\ Returned(inflight.outcome, inflight.sequences,
                        inflight.message_cache)
            /\ inflight' = NoCall
       ELSE /\ token' = IF Head(inflight.awaits) = "exchange"
                          THEN inflight.outcome.auth.token ELSE token
            /\ inflight' = [inflight EXCEPT !.awaits = Tail(@)]
            /\ UNCHANGED <<sequences, message_cache, _token_expiration, pc,
                           last_drain, step, websocket>>
  /\ UNCHANGED <<argv, service_file, product_ids, datasets, frames, now,
                 previous, subscribe_message, received, normalized>>

ProcessStepwise == Begin(WriterFeed, WriterFrames, Steady, WriteResults)

NextSteps == StartSession \/ ProcessStepwise \/ AwaitReturns \/ Restart

SpecSteps == Init /\ [][NextSteps]_vars

\* a token exchange or a bulk write of the call in progress has not returned
Outstanding == inflight # NoCall

\* C20: while a bulk write, or the token exchange it needs, is outstanding,
\* no frame is read: the loop is suspended in the call, and a frame is read
\* only when the call before has returned, drain and writes included.
C20_NoReadWhileWriting ==
  /\ [](Outstanding => pc = "writing")
  /\ [][frames' = frames + 1 => ~Outstanding /\ pc = "streaming"]_vars
  /\ [][Outstanding => (frames' = frames \/ pc' = "streaming")]_vars

\* the token exchange has returned and the POST is outstanding
C20_Witness ==
  /\ Outstanding
  /\ pc = "writing"
  /\ inflight.awaits = <<"post">>
  /\ token = _token_expiration
  /\ step.writes = <<>>


---------------------------------------------------------------------------
(* SpecSubscribe: main() is given a subscription request of its caller's, *)
(* under the supervisor loop; short sessions on the order-book feed       *)

\* the values of "channels": lists of names, and bare names
ChannelValues ==
  {pylist(<<"full", "level2">>), pylist(<<"ticker">>),
   pylist(<<"level2", "heartbeat">>), pystr("ticker"), pystr("matches"),
   pystr("full")}

SubscribeMessages(pids) ==
  {NoSubscribe}
  \cup {[type |-> "subscribe", product_ids |-> pids, channels |-> c] :
          c \in ChannelValues}

InitSubscribe ==
  InitGiven({"BTC-USD"}, SubscribeMessages({"BTC-USD"}), {NoneEntry})

ProcessSubscribed ==
  Receive(WriterFeed, MaxFrames, Steady, WriteResults)

NextSubscribe == StartSession \/ ProcessSubscribed \/ Restart

SpecSubscribe == InitSubscribe /\ [][NextSubscribe]_vars

\* the channel names of a request
Named(subscribe) ==
  {subscribe.channels.value[i] : i \in 1..Len(subscribe.channels.value)}

UnsupportedNames == {"ticker", "user", "matches", "heartbeat"}

\* C21: a request that names an unsupported channel in its channels list is
\* refused when the handler is constructed: no connection is ever opened for
\* it and no frame sent.
C21_UnsupportedRejected ==
  (/\ subscribe_message.channels.pytype = "list"
   /\ Named(subscribe_message) \cap UnsupportedNames # {})
    => /\ ~websocket.open
       /\ websocket.sent = <<>>
       /\ pc # "streaming"

\* the construction of the handler raised the configuration error
ConfigError == step.raised = "not_implemented"

----------------------------------------------------------------------------
(* SpecConnect: __aenter__ followed from await to await: the handler is   *)
(* constructed, the connection entered and the request sent in a step of  *)
(* its own each; either await can raise                                   *)

\* main() up to the first await of __init_connection__
Construct ==
  /\ pc = "idle"
  /\ now' = 0
  /\ IF unsupported(_subscribe(subscribe_message, argv))
       THEN Refused
       ELSE /\ pc' = "connecting"
            /\ Constructed
            /\ websocket' = NoConnection
  /\ frames' = 0
  /\ last_drain' = NoDrain
  /\ previous' = discarded(sequences, message_cache)
  /\ received' = NoFrame
  /\ UNCHANGED <<argv, service_file, inflight, subscribe_message,
                 normalized>>

\* what the network does for an await of __init_connection__
ConnectResults == {"ok", "fail"}

\* line 99 returns the websocket, or raises out of main()
Connect ==
  /\ pc = "connecting"
  /\ \E result \in ConnectResults :
       IF result = "ok"
         THEN /\ websocket' = ws_connect(websocket)
              /\ pc' = "subscribing"
              /\ step' = step
         ELSE /\ websocket' = websocket
              /\ pc' = "failed"
              /\ step' = [NoStep EXCEPT !.raised = "connect_error"]
  /\ UNCHANGED <<argv, service_file, product_ids, datasets, sequences,
                 message_cache, frames, last_drain, now, _token_expiration,
                 token, previous, inflight, subscribe_message, received,
                 normalized>>

\* line 100 returns and main() enters its loop, or raises out of main():
\* __aexit__ is not called for an __aenter__ that raised
Subscribe ==
  /\ pc = "subscribing"
  /\ \E result \in ConnectResults :
       IF result = "ok"
         THEN /\ websocket' =
                   send_json(websocket, _subscribe(subscribe_message, argv))
              /\ pc' = "streaming"
              /\ step' = step
         ELSE /\ websocket' = websocket
              /\ pc' = "failed"
              /\ step' = [NoStep EXCEPT !.raised = "connect_error"]
  /\ UNCHANGED <<argv, service_file, product_ids, datasets, sequences,
                 message_cache, frames, last_drain, now, _token_expiration,
                 token, previous, inflight, subscribe_message, received,
                 normalized>>

NextConnect ==
  Construct \/ Connect \/ Subscribe \/ ProcessSubscribed \/ Restart

SpecConnect == InitSubscribe /\ [][NextConnect]_vars

\* a subscription frame is put on the connection
Sends == Len(websocket'.sent) > Len(websocket.sent)

\* C31: a session sends one subscription frame, on the open connection and
\* before its first receive: a session that receives has sent exactly one
\* frame, its request, no session sends a second one, and none is sent
\* after a frame was received.
C31_OneSubscriptionFrame ==
  /\ [](/\ Len(websocket.sent) <= 1
        /\ (pc = "streaming" \/ frames > 0) =>
             websocket.sent = <<_subscribe(subscribe_message, argv)>>)
  /\ [][Sends => /\ websocket.open
                 /\ websocket.sent = <<>>
                 /\ frames = 0
                 /\ frames' = 0]_vars
  /\ [][frames' = frames + 1 =>
          /\ websocket.open
          /\ Len(websocket.sent) = 1
          /\ websocket'.sent = websocket.sent]_vars

\* frames were received in a session of a caller's request, after the one
\* subscription frame
C31_Witness ==
  /\ frames >= 2
  /\ pc = "streaming"
  /\ subscribe_message # NoSubscribe
  /\ Len(websocket.sent) = 1

---------------------------------------------------------------------------
(* Events and frames the handler refuses (checked under Spec) *)

\* the types _process_message has a branch for
Recognized == MESSAGE_TYPES \cup {"subscriptions", "snapshot", "l2update"}

\* the last call received an event of type error, of no type, or of a type
\* the handler does not know
BadEvent ==
  /\ step.called
  /\ received.kind = "TEXT"
  /\ step.message.type \notin Recognized

\* C23: an event of type error, without a type or of an unknown type ends
\* the session with an error: the call raises, the loop is left, and the
\* event is appended to no batch; no batch ever holds such an event.
C23_BadEventIsFatal ==
  /\ BadEvent =>
       /\ step.raised # NoneVal
       /\ pc # "streaming"
       /\ ~step.accepted
       /\ step.appended = {}
  /\ \A p \in DOMAIN message_cache :
       \A t \in tables :
         \A i \in 1..Len(message_cache[p][t]) :
           \/ message_cache[p][t][i] = NoneEntry
           \/ message_cache[p][t][i].type \in Recognized

\* an event of an unknown type arrived while a batch held rows, and failed
C23_Witness ==
  /\ BadEvent
  /\ datasets
  /\ step.message.type = "heartbeat"
  /\ step.message.sequence = 1
  /\ step.raised = "unknown_message"
  /\ pc = "failed"
  /\ message_cache[step.message.product_id][TABLE_QUOTES] # <<>>

\* what _recieve_message raises
ReceiveErrors == {"closed", "timeout", "not_text"}

\* C24: _recieve_message returns an event only for a text frame; a closed
\* signal, a frame of another kind and a receive timeout raise, the error
\* ends the session, and no further receive is made in that session.
C24_OnlyTextIsReceived ==
  /\ [](step.called =>
          /\ received.kind = "TEXT" <=> step.raised \notin ReceiveErrors
          /\ received.kind # "TEXT" =>
               /\ pc # "streaming"
               /\ ~step.accepted
               /\ step.message = NoneEntry
               /\ step.writes = <<>>)
  /\ [][step.raised \in ReceiveErrors => frames' # frames + 1]_vars

\* a frame that is not text arrived after frames the session had processed
C24_Witness ==
  /\ step.called
  /\ received.kind = "BINARY"
  /\ step.raised = "not_text"
  /\ frames > 1
  /\ pc = "failed"


---------------------------------------------------------------------------
(* SpecNormalize: _validate_message by itself, applied to an event of the *)
(* feed and then to its own result                                        *)

\* an event with the fields _validate_message looks at; pairs are the
\* [level, depth] pairs of the asks and bids of a snapshot
FieldEvent(t, p, s, time, price, size, side, trade_id, changes) ==
  [type |-> t, product_id |-> p, sequence |-> s, asks |-> NoNumber,
   bids |-> NoNumber, time |-> time, price |-> price, funds |-> Absent,
   size |-> size, remaining_size |-> Absent, side |-> side,
   trade_id |-> trade_id, changes |-> changes,
   pairs |-> [asks |-> <<>>, bids |-> <<>>]]

Buy == pyval("str", "buy")
Sell == pyval("str", "sell")

\* the changes of an l2update: none, one triple, two triples
ChangeLists ==
  {<<>>,
   <<<<Buy, pyval("str", "6500.11"), pyval("str", "0.5")>>>>,
   <<<<Sell, pyval("str", "6500.15"), pyval("str", "0")>>,
     <<Buy, pyval("str", "6500.11"), pyval("str", "0.5")>>>>}

FieldEvents ==
  {FieldEvent(t, p, s, time, price, size, side, trade_id, changes) :
     t \in {"match", "received", "l2update", "snapshot", "subscriptions",
            NoneVal},
     p \in {NoneVal, "BTC-USD"},
     s \in {NoNumber, 1},
     time \in {Absent, pyval("str", ""),
               pyval("str", "2018-10-01T12:00:00.000000Z")},
     price \in {Absent, pyval("str", "6500.11"), pyval("str", "0")},
     size \in {Absent, pyval("str", "0.5")},
     side \in {Absent, Buy, Sell},
     trade_id \in {Absent, pyval("int", "7")},
     changes \in ChangeLists}

InitNormalize == InitGiven({"BTC-USD"}, {NoSubscribe}, FieldEvents)

\* _validate_message applied to m, after k applications before it: what it
\* raised, what it returned, and what it was given
applied(k, m) ==
  [applied |-> k + 1, raised |-> validation_error(m),
   message |-> IF validation_error(m) = NoneVal
                 THEN _validate_message(m, now) ELSE m,
   first |-> m]

Validate ==
  /\ normalized.applied < 2
  /\ normalized.raised = NoneVal
  /\ normalized' = applied(normalized.applied, normalized.message)
  /\ UNCHANGED <<pc, argv, service_file, product_ids, datasets, sequences,
                 message_cache, frames, step, last_drain, now,
                 _token_expiration, token, previous, inflight,
                 subscribe_message, websocket, received>>

NextNormalize == Validate

SpecNormalize == InitNormalize /\ [][NextNormalize]_vars

\* C25: normalization is idempotent: _validate_message applied to its own
\* result succeeds and returns an event equal to what it was given.
C25_Idempotent ==
  normalized.applied = 2 =>
    /\ normalized.raised = NoneVal
    /\ normalized.message = normalized.first


\* _validate_message was applied once, to normalized.first, and returned
\* normalized.message
Validated ==
  /\ normalized.applied = 1
  /\ normalized.raised = NoneVal

\* +1 for the text buy, -1 for the text sell
signed(x) ==
  IF x = Buy THEN pyval("int", "1")
  ELSE IF x = Sell THEN pyval("int", "-1")
  ELSE x

\* the sides are mapped, and of a non-empty changes list the first triple
\* is converted and the others are not
SidesAndFirstTriple(m, r) ==
  /\ (m.changes = <<>> /\ m.side \in {Buy, Sell}) =>
       r.side = signed(m.side) /\ r.side # m.side
  /\ m.changes # <<>> =>
       /\ Len(r.changes) = Len(m.changes)
       /\ r.changes[1] = <<signed(m.changes[1][1]),
                           pyval("Decimal", m.changes[1][2].v),
                           pyval("Decimal", m.changes[1][3].v)>>
       /\ r.changes[1][1] # m.changes[1][1]
       /\ \A i \in 2..Len(m.changes) : r.changes[i] = m.changes[i]

\* C33 as stated: buy becomes +1 and sell -1, for a top-level side and for
\* the side of the first change triple; of an event with a non-empty changes
\* list only that triple is converted, its numbers to decimals, and every
\* other field of the event is left as received.
C33_Original ==
  Validated =>
    /\ SidesAndFirstTriple(normalized.first, normalized.message)
    /\ normalized.first.changes # <<>> =>
         \A f \in DOMAIN normalized.first \ {"changes"} :
           normalized.message[f] = normalized.first[f]

\* C33 as amended: buy becomes +1 and sell -1, for a top-level side and for
\* the side of the first change triple; of an event with a non-empty changes
\* list only that triple is converted, its numbers to decimals, after the
\* type was defaulted, the time parsed and the product id rewritten as for
\* any event; every field but these four is left as received.
C33_FirstTripleOnly ==
  Validated =>
    LET m == normalized.first
        r == normalized.message
    IN /\ SidesAndFirstTriple(m, r)
       /\ m.changes # <<>> =>
            /\ \A f \in DOMAIN m \ {"changes", "type", "time", "product_id"} :
                 r[f] = m[f]
            /\ r.type = IF m.type = NoneVal THEN "unknown" ELSE m.type
            /\ r.product_id =
                 IF m.product_id = "BTC-USD" THEN "BTC_USD" ELSE m.product_id
            /\ r.time =
                 IF m.time.py = "str" /\ m.time.v # ""
                   THEN pyval("datetime", m.time.v)
                 ELSE IF m.type = "snapshot"
                   THEN pyval("datetime", ToString(now))
                 ELSE pyval("None", "")

\* an event with two change triples, a side, a price and a trade id was
\* normalized: the first triple is converted, the side is still a text
C33_Witness ==
  /\ Validated
  /\ Len(normalized.first.changes) = 2
  /\ normalized.first.side = Buy
  /\ normalized.first.price # Absent
  /\ normalized.first.trade_id # Absent
  /\ normalized.first.time.py = "str"
  /\ normalized.message.side = Buy
  /\ normalized.message.changes[1][1] = pyval("int", "-1")

---------------------------------------------------------------------------
(* SpecFields: the session of Spec on events that carry their fields *)

Stamp == pyval("str", "2018-10-01T12:00:00.000000Z")

\* the [level, depth] pairs of one side of a snapshot of n levels
Pairs(n) == [i \in 1..n |-> <<pyval("str", "6500.11"), pyval("str", "0.5")>>]

\* a match, l2updates of one and of two change triples, and snapshots
FieldFeed ==
  {[kind |-> "TEXT", data |-> e] :
     e \in {FieldEvent("match", p, s, Stamp, pyval("str", "6500.11"),
                       pyval("str", "0.5"), Sell, pyval("int", "7"), <<>>) :
              p \in argv, s \in Seqs \ {0}}
           \cup {FieldEvent("l2update", p, NoNumber, Stamp, Absent, Absent,
                            Absent, Absent, c) :
                   p \in argv, c \in ChangeLists \ {<<>>}}
           \cup {[FieldEvent("snapshot", p, NoNumber, Absent, Absent, Absent,
                             Absent, Absent, <<>>)
                    EXCEPT !.asks = z[1], !.bids = z[2],
                           !.pairs = [asks |-> Pairs(z[1]),
                                      bids |-> Pairs(z[2])]] :
                   p \in argv, z \in SnapshotSizes}}

ProcessFields == Receive(FieldFeed, MaxFrames, Steady, WriteResults)

NextFields == StartSession \/ ProcessFields \/ Restart

SpecFields == Init /\ [][NextFields]_vars

\* a value that is no text: an exact decimal, an int, a time, or none
Exact(x) == x.py # "str"

\* every number an entry of a batch holds is exact: its numeric fields, the
\* triples of its changes, and the pairs of its asks and bids
NoRawText(entry) ==
  /\ \A f \in {"price", "funds", "size", "remaining_size"} : Exact(entry[f])
  /\ \A i \in 1..Len(entry.changes) :
       Exact(entry.changes[i][2]) /\ Exact(entry.changes[i][3])
  /\ \A side \in {"asks", "bids"} :
       \A i \in 1..Len(entry.pairs[side]) :
         Exact(entry.pairs[side][i][1]) /\ Exact(entry.pairs[side][i][2])

\* C26: in every reachable state every numeric value held in a batch is an
\* exact decimal: no decimal text of the feed is stored in a batch, the
\* pairs of a snapshot and the triples of an l2update included.
C26_NoRawInBatch ==
  \A p \in DOMAIN message_cache :
    \A t \in tables :
      \A i \in 1..Len(message_cache[p][t]) :
        "pairs" \in DOMAIN message_cache[p][t][i]
          => NoRawText(message_cache[p][t][i])


---------------------------------------------------------------------------
(* The sequence check and the order-book feed (checked under Spec) *)

\* the last call processed a subscriptions, snapshot or l2update event
Exempt ==
  /\ step.called
  /\ received.kind = "TEXT"
  /\ step.message.type \in {"subscriptions", "snapshot", "l2update"}

\* C27: subscriptions, snapshot and l2update events are exempt from the
\* sequence check: a call that processes one never raises the
\* out-of-sequence error and leaves the counter of every instrument as it
\* was.
C27_ExemptFromSequence ==
  [][(frames' = frames + 1 /\ Exempt') =>
       /\ step'.raised # "out_of_sequence"
       /\ sequences' = sequences]_vars

\* an l2update was processed after the counter had left 0
C27_Witness ==
  /\ Exempt
  /\ step.message.type = "l2update"
  /\ step.raised = NoneVal
  /\ sequences[step.message.product_id] > 1
  /\ pc = "streaming"


---------------------------------------------------------------------------
(* What removes rows from a batch (checked under Spec) *)

\* the step is a process_message call of the session
Called == frames' = frames + 1

\* the batch of p and t lost rows in the step
LostRows(p, t) == ~IsPrefix(message_cache[p][t], message_cache'[p][t])

\* the step emptied the batch of p and t by the clear of line 285, after
\* record_messages had returned for that batch
ClearedBy(p, t) ==
  /\ message_cache'[p][t] = <<>>
  /\ step'.cleared
  /\ step'.recorded
  /\ step'.pid = p
  /\ step'.table_ref = t
  /\ step'.raised = NoneVal

\* C28 as stated: a batch loses rows only by being cleared, directly after
\* a write of its content has completed.
C28_Original ==
  [][Called =>
       \A p \in DOMAIN message_cache :
         \A t \in tables :
           LostRows(p, t) =>
             /\ ClearedBy(p, t)
             /\ step'.writes # <<>>]_vars

\* the rows the drain of a batch sends: the batch itself for trades and
\* quotes; for the order book the rows of the pending snapshot, or with none
\* pending the rows of the l2updates
rows_to_write(table_ref, drained) ==
  IF table_ref # TABLE_ORDERBOOK THEN drained
  ELSE IF snapshots_of(drained) # <<>>
    THEN snapshot_rows(snapshots_of(drained)[1])
  ELSE l2_rows(drained)

\* C28 as amended: within a session a batch loses rows only by the clear
\* that follows a drain of that batch which returned without error: every
\* write the drain issued has completed without a row error, and together
\* they carry the rows of the drain (for an order-book batch the rows of the
\* pending snapshot only, which are none for a snapshot without levels: then
\* the batch is cleared with no write). No other call, and no failed call,
\* removes a row.
C28_ClearedAfterDrain ==
  [][Called =>
       /\ \A p \in DOMAIN message_cache :
            \A t \in tables :
              LostRows(p, t) =>
                /\ ClearedBy(p, t)
                /\ \A i \in 1..Len(step'.writes) :
                     /\ step'.writes[i].raised = NoneVal
                     /\ step'.writes[i].errors = <<>>
                /\ rows_written(step'.writes) =
                     rows_to_write(t, step'.drained)
       /\ step'.raised # NoneVal =>
            \A p \in DOMAIN message_cache :
              \A t \in tables : ~LostRows(p, t)]_vars

\* a snapshot without levels was drained: no write, and the l2updates of
\* the batch were cleared with it
C28_Witness ==
  /\ step.cleared
  /\ step.table_ref = TABLE_ORDERBOOK
  /\ step.writes = <<>>
  /\ Len(l2updates_of(step.drained)) >= 1
  /\ message_cache[step.pid][TABLE_ORDERBOOK] = <<>>


----------------------------------------------------------------------------
(* The writes of a snapshot drain (checked under SpecFields) *)

\* the last call drained an order-book batch whose pending snapshot is the
\* only one, and no write call of it failed in transport or authorization
SnapshotDrained ==
  /\ OrderbookDrain
  /\ Len(snapshots_of(step.drained)) = 1
  /\ step.raised \in {NoneVal, "insert_errors"}

\* rows lo..hi of a list, the list's end cutting the range short
slice(rows, lo, hi) ==
  SubSeq(rows, lo, IF hi < Len(rows) THEN hi ELSE Len(rows))

\* C29: the drain of a snapshot of n rows writes every row once, the asks
\* (side 1) before the bids (side -1), each with the time of the snapshot,
\* in ceil(n / batch size) calls that carry at most a batch size of rows
\* each, in order; for n = 0 there is no call and the drain succeeds.
C29_SnapshotInChunks ==
  SnapshotDrained =>
    LET snapshot == snapshots_of(step.drained)[1]
        n == snapshot.asks + snapshot.bids
        rows == rows_written(step.writes)
    IN /\ Len(rows) = n
       /\ \A i \in 1..snapshot.asks :
            rows[i] = [kind |-> "snapshot", side |-> 1, level |-> i,
                       time |-> snapshot.time]
       /\ \A j \in 1..snapshot.bids :
            rows[snapshot.asks + j] =
              [kind |-> "snapshot", side |-> -1, level |-> j,
               time |-> snapshot.time]
       /\ Len(step.writes) = Chunks(n)
       /\ \A k \in 1..Len(step.writes) :
            /\ Len(step.writes[k].rows) <= _INSERT_STREAMING_BATCH_SIZE
            /\ step.writes[k].rows =
                 slice(rows, (k - 1) * _INSERT_STREAMING_BATCH_SIZE + 1,
                       k * _INSERT_STREAMING_BATCH_SIZE)
       /\ n = 0 => step.writes = <<>> /\ step.raised = NoneVal /\ step.cleared

\* a snapshot with asks and bids that needs more than one call was drained,
\* later than it was received
C29_Witness ==
  /\ SnapshotDrained
  /\ step.raised = NoneVal
  /\ snapshots_of(step.drained)[1].asks >= 1
  /\ snapshots_of(step.drained)[1].bids >= 1
  /\ Len(step.writes) >= 2
  /\ snapshots_of(step.drained)[1].time # utcnow(now)


----------------------------------------------------------------------------
(* Where a process_message call suspends (checked under Spec) *)

\* the awaits of the last call, in order: the frame, the order book of the
\* REST endpoint when it was asked for, and the exchanges and POSTs of the
\* writes
suspensions ==
  <<"frame">>
  \o (IF step.fetched THEN <<"order_book">> ELSE <<>>)
  \o awaits_of(step.writes)

\* C30 as stated: a process_message call suspends only on the next feed
\* frame, on the token exchange and on the bulk write; it awaits no other
\* network call.
C30_Original ==
  step.called =>
    \A i \in 1..Len(suspensions) :
      suspensions[i] \in {"frame", "exchange", "post"}

\* the message of the last call went past the order-book branch with a
\* sequence that is a multiple of _ORDERBOOK_SNAPSHOT_ON
AtSnapshotSequence ==
  /\ step.message.type
       \notin {NoneVal, "error", "subscriptions", "snapshot", "l2update"}
  /\ step.message.sequence # NoNumber
  /\ step.message.sequence % _ORDERBOOK_SNAPSHOT_ON = 0

\* C30 as amended: a process_message call suspends first on the next feed
\* frame, then on the order-book request to the REST endpoint if and only
\* if the message is none of error, subscriptions, snapshot and l2update and
\* its sequence is a multiple of 1,000,000, and after that only on token
\* exchanges and bulk writes.
C30_Suspensions ==
  step.called =>
    /\ suspensions[1] = "frame"
    /\ step.fetched <=> AtSnapshotSequence
    /\ \A i \in 2..Len(suspensions) :
         /\ suspensions[i] \in {"order_book", "exchange", "post"}
         /\ suspensions[i] = "order_book" => i = 2

\* a message was accepted after the order book had been awaited
C30_Witness ==
  /\ step.called
  /\ step.fetched
  /\ step.accepted
  /\ step.raised = NoneVal


----------------------------------------------------------------------------
(* SpecPair: one handler subscribed to two instruments *)

InitPair == InitWith({"BTC-USD", "ETH-USD"})

\* matches and l2updates of both instruments, and the closed signal
PairFeed ==
  {[kind |-> "TEXT", data |-> e] :
     e \in TradeQuoteEvents({"match"}, argv) \cup L2UpdateEvents(argv)}
  \cup {[kind |-> "CLOSED", data |-> NoneEntry]}

\* sessions long enough to drain a batch of one instrument after a message
\* of the other
PairFrames == _INSERT_STREAMING_BATCH_SIZE + 2

ProcessPair == Receive(PairFeed, PairFrames, Steady, WriteResults)

NextPair == StartSession \/ ProcessPair \/ Restart

SpecPair == InitPair /\ [][NextPair]_vars

\* the instrument the event of the call is for
instrument(message) == message.product_id

\* C32: a process_message call on an event of one instrument leaves the
\* counter and the three batches of every other instrument as they were,
\* whether the event is accepted, makes a batch drain, or fails.
C32_OtherInstrumentsUntouched ==
  [][Called =>
       \A b \in product_ids :
         b # instrument(step'.message) =>
           /\ sequences'[b] = sequences[b]
           /\ message_cache'[b] = message_cache[b]]_vars

\* a batch of one instrument was drained and cleared while another
\* instrument had a counter and rows of its own
C32_Witness ==
  /\ step.cleared
  /\ \E b \in product_ids :
       /\ b # step.pid
       /\ sequences[b] # 0
       /\ message_cache[b][TABLE_TRADES] # <<>>
       /\ message_cache[b][TABLE_ORDERBOOK] # <<>>


----------------------------------------------------------------------------
(* The order book of the REST endpoint (checked under Spec) *)

\* the last call, with storage on, got the order book it awaited
Fetched ==
  /\ step.called
  /\ datasets
  /\ step.fetched
  /\ step.raised # "rest_failed"

\* C34: when the sequence of a trade/quote event is a multiple of 1,000,000
\* and storage is on, the order book fetched is appended to the order-book
\* batch of the instrument as an entry of type snapshot, and a drain of that
\* batch flattens it like a snapshot of the feed instead of failing on it.
C34_FetchedBookIsSnapshot ==
  /\ Fetched =>
       LET batch == message_cache[step.message.product_id][TABLE_ORDERBOOK]
       IN /\ batch # <<>>
          /\ batch[Len(batch)].type = "snapshot"
  /\ OrderbookDrain => step.raised # "type_error"


\* C35: a call that ends in a sequence violation leaves the state as it
\* was: the counter of every instrument and the content of every batch are
\* the same after it as before, whatever the sequence of the event.
C35_ViolationLeavesState ==
  [][(Called /\ step'.raised = "out_of_sequence") =>
       /\ sequences' = sequences
       /\ message_cache' = message_cache]_vars


----------------------------------------------------------------------------
(* The l2updates of a drain (checked under SpecFields) *)

\* the last call drained, wrote and cleared an order-book batch with a
\* pending snapshot
SnapshotCleared ==
  /\ OrderbookDrain
  /\ step.cleared
  /\ Len(snapshots_of(step.drained)) = 1

\* the rows of every write of the call just made
written == rows_written(step'.writes)

\* C36: when a drain writes a pending snapshot, the l2updates buffered in
\* the same batch are removed by the clear that follows and none of them
\* was written by that drain; no later write carries them, because a drain
\* writes rows of nothing but the batch as it is then and the event of the
\* call.
C36_DeltasDropped ==
  /\ [](SnapshotCleared =>
          /\ \A i \in 1..Len(rows_written(step.writes)) :
               rows_written(step.writes)[i].kind = "snapshot"
          /\ message_cache[step.pid][TABLE_ORDERBOOK] = <<>>)
  /\ [][(Called /\ step'.recorded /\ step'.table_ref = TABLE_ORDERBOOK) =>
          /\ step'.drained =
               Append(message_cache[step'.pid][TABLE_ORDERBOOK],
                      step'.message)
          /\ \A i \in 1..Len(written) :
               written[i].kind = "l2update" =>
                 /\ snapshots_of(step'.drained) = <<>>
                 /\ written = l2_rows(step'.drained)]_vars

\* a snapshot with levels was written and two l2updates went with the clear
C36_Witness ==
  /\ SnapshotCleared
  /\ Len(l2updates_of(step.drained)) = 2
  /\ Len(step.writes) >= 1
  /\ message_cache[step.pid][TABLE_ORDERBOOK] = <<>>


\* the last call drained an order-book batch without a pending snapshot and
\* sent the rows of its l2updates
DeltasDrained ==
  /\ OrderbookDrain
  /\ snapshots_of(step.drained) = <<>>
  /\ step.writes # <<>>

\* C39: every buffered l2update contributes exactly one row to a drain,
\* built from its first change triple and its time: an l2update of k >= 1
\* triples gives one row, and its k - 1 further triples give none.
C39_FirstTripleOnly ==
  DeltasDrained =>
    LET deltas == l2updates_of(step.drained)
        rows == rows_written(step.writes)
    IN /\ Len(rows) = Len(deltas)
       /\ \A i \in 1..Len(deltas) :
            /\ Len(deltas[i].changes) >= 1
            /\ rows[i].kind = "l2update"
            /\ rows[i].time = deltas[i].time
            /\ rows[i].side = deltas[i].changes[1][1]
            /\ rows[i].level = pyval("Decimal", deltas[i].changes[1][2].v)
            /\ rows[i].depth = pyval("Decimal", deltas[i].changes[1][3].v)

\* a batch with an l2update of two change triples was drained
C39_Witness ==
  /\ DeltasDrained
  /\ step.cleared
  /\ \E i \in 1..Len(step.drained) :
       /\ step.drained[i].type = "l2update"
       /\ Len(step.drained[i].changes) = 2
       /\ step.drained[i].changes[1] # step.drained[i].changes[2]


----------------------------------------------------------------------------
(* The size of the trades and quotes batches (checked under Spec) *)

\* the last call drained a trades or quotes batch and got as far as its
\* write
TradeQuoteWrite ==
  /\ step.recorded
  /\ step.table_ref \in {TABLE_TRADES, TABLE_QUOTES}
  /\ step.writes # <<>>

\* C37: with the threshold T, after every call that returns normally each
\* trades batch and each quotes batch holds at most T rows; every write of
\* a trades or quotes batch is one call that carries exactly T + 1 rows: the
\* batch as it was before the call, in order, and then the event of the
\* call.
C37_BatchSizes ==
  /\ []((step.called /\ step.raised = NoneVal) =>
          \A p \in DOMAIN message_cache :
            \A t \in {TABLE_TRADES, TABLE_QUOTES} :
              Len(message_cache[p][t]) <= _INSERT_STREAMING_BATCH_SIZE)
  /\ [](TradeQuoteWrite =>
          /\ Len(step.writes) = 1
          /\ Len(step.writes[1].rows) = _INSERT_STREAMING_BATCH_SIZE + 1
          /\ step.writes[1].rows = step.drained
          /\ step.drained[Len(step.drained)] = step.message)
  /\ [][(Called /\ TradeQuoteWrite') =>
          step'.drained =
            Append(message_cache[step'.pid][step'.table_ref],
                   step'.message)]_vars

\* a trades batch of T + 1 rows was written and cleared
C37_Witness ==
  /\ TradeQuoteWrite
  /\ step.table_ref = TABLE_TRADES
  /\ step.cleared
  /\ Len(step.writes[1].rows) = _INSERT_STREAMING_BATCH_SIZE + 1
  /\ message_cache[step.pid][TABLE_TRADES] = <<>>


----------------------------------------------------------------------------
(* The chunks of a snapshot drain that fail (checked under SpecWriter) *)

\* the chunks the snapshot of the last drain takes
chunks_of_drain ==
  Chunks(snapshots_of(step.drained)[1].asks
         + snapshots_of(step.drained)[1].bids)

\* the last call drained a snapshot that takes several chunks
SeveralChunks ==
  /\ OrderbookDrain
  /\ Len(snapshots_of(step.drained)) = 1
  /\ chunks_of_drain >= 2

\* C38: in a snapshot drain of several chunks a chunk whose write returns
\* row errors does not stop the drain: the chunks after it are written, and
\* the failure is raised after the last one; a chunk whose write fails in
\* transport or authorization is the last one written, and its error is the
\* error of the call.
C38_ChunkFailures ==
  SeveralChunks =>
    /\ Len(step.writes) <= chunks_of_drain
    /\ \A k \in 1..Len(step.writes) :
         /\ step.writes[k].raised # NoneVal =>
              /\ k = Len(step.writes)
              /\ step.raised = step.writes[k].raised
              /\ ~step.cleared
         /\ (step.writes[k].raised = NoneVal /\ k < chunks_of_drain) =>
              Len(step.writes) > k
    /\ (\A k \in 1..Len(step.writes) : step.writes[k].raised = NoneVal) =>
         /\ Len(step.writes) = chunks_of_drain
         /\ (\E k \in 1..Len(step.writes) : step.writes[k].errors # <<>>) =>
              /\ step.raised = "insert_errors"
              /\ ~step.cleared

\* the first chunk came back with row errors, the second was written all
\* the same, and the call raised
C38_Witness ==
  /\ SeveralChunks
  /\ Len(step.writes) = 2
  /\ step.writes[1].errors # <<>>
  /\ step.writes[2].errors = <<>>
  /\ step.writes[2].raised = NoneVal
  /\ step.raised = "insert_errors"

====
